---- MODULE Spec2Model ----
(***************************************************************************)
(* Model of server.js: the Express handlers of the bus-pass backend        *)
(* (POST /apply, GET /verify/:phone, GET /applicant/:id,                   *)
(* GET /getApplicant/:passId, POST /bookTicket), the connection bootstrap  *)
(* connectDB and the identifier generator generateUniquePassId.            *)
(*                                                                         *)
(* A handler runs atomically from one await to the next (Node runs one     *)
(* callback at a time), so every handler is split at its awaits: one       *)
(* action for the segment that starts at the request, one per awaited      *)
(* promise.  An awaited promise either resolves or rejects.  insertOne is  *)
(* applied to the collection in the step in which it resolves, findOne     *)
(* reads the collection in the step in which it resolves.                  *)
(*                                                                         *)
(* server.js holds the server twice, as ES-module text (lines 1-212) and   *)
(* as CommonJS text (lines 214-426); the handlers are the same and the     *)
(* definitions below follow the first.                                     *)
(*                                                                         *)
(* JavaScript strings are sequences of one-character strings; a value is   *)
(* a record tagged with its JavaScript type.  Document fields the          *)
(* handlers only copy (name, address, qrCode, createdAt, ...) are left     *)
(* out of the documents.                                                   *)
(***************************************************************************)
EXTENDS Integers, Sequences, FiniteSets, TLC

(***************************************************************************)
(* Bounds                                                                  *)
(***************************************************************************)
\* number of requests one behaviour receives
MaxReqs == 2

(***************************************************************************)
(* JavaScript values                                                       *)
(***************************************************************************)
Undef == [type |-> "undefined"]
Str(s) == [type |-> "string", val |-> s]
Num(n) == [type |-> "number", val |-> n]
NaN == [type |-> "NaN"]

\* ToBoolean on the values a request carries: undefined and "" are falsy
Truthy(x) == x.type = "string" /\ x.val # <<>>

\* a || b
Or(a, b) == IF Truthy(a) THEN a ELSE b

DigitChars == <<"0", "1", "2", "3", "4", "5", "6", "7", "8", "9">>
HexChars == {"0", "1", "2", "3", "4", "5", "6", "7", "8", "9",
             "a", "b", "c", "d", "e", "f", "A", "B", "C", "D", "E", "F"}

IsDigit(c) == \E d \in 1..10 : DigitChars[d] = c
DigitVal(c) == (CHOOSE d \in 1..10 : DigitChars[d] = c) - 1

\* `${n}` for a non-negative integer n
RECURSIVE ToDecimal(_)
ToDecimal(n) ==
  IF n < 10 THEN <<DigitChars[n + 1]>>
  ELSE ToDecimal(n \div 10) \o <<DigitChars[(n % 10) + 1]>>

RECURSIVE ParseDigits(_)
ParseDigits(s) ==
  IF s = <<>> THEN 0
  ELSE 10 * ParseDigits(SubSeq(s, 1, Len(s) - 1)) + DigitVal(s[Len(s)])

\* Number(x) on undefined and on strings of the request bodies: undefined
\* and non-numeric text give NaN, "" gives 0, decimal digits their value
Number(x) ==
  IF x.type = "number" THEN x
  ELSE IF x.type # "string" THEN NaN
  ELSE IF x.val = <<>> THEN Num(0)
  ELSE IF \A k \in 1..Len(x.val) : IsDigit(x.val[k]) THEN Num(ParseDigits(x.val))
  ELSE NaN

(***************************************************************************)
(* ObjectId                                                                *)
(***************************************************************************)
ObjectIdLen == 24

\* new ObjectId(s) accepts a string of 24 hex characters and throws on
\* anything else
ObjectIdValid(x) ==
  /\ x.type = "string"
  /\ Len(x.val) = ObjectIdLen
  /\ \A k \in 1..Len(x.val) : x.val[k] \in HexChars

LowerHex(c) ==
  CASE c = "A" -> "a" [] c = "B" -> "b" [] c = "C" -> "c"
    [] c = "D" -> "d" [] c = "E" -> "e" [] c = "F" -> "f"
    [] OTHER -> c

\* the id new ObjectId(s) denotes, as its lower-case hex text
ObjectId(x) == [k \in 1..ObjectIdLen |-> LowerHex(x.val[k])]

\* the n-th id the driver generates for an inserted document
GeneratedId(n) ==
  [k \in 1..ObjectIdLen |-> IF k = ObjectIdLen THEN DigitChars[n + 1] ELSE "0"]

(***************************************************************************)
(* generateUniquePassId                                                    *)
(***************************************************************************)
PassIdBase == 10000000
PassIdSpan == 90000000
PassIdPrefix == <<"T", "S", "R", "T", "C", "-">>

\* draw stands for Math.floor(Math.random() * 90000000), in 0..89999999
generateUniquePassId(draw) == PassIdPrefix \o ToDecimal(PassIdBase + draw)

\* the draws of Math.random the model follows: both ends of the range
RandomDraws == {0, PassIdSpan - 1}

(***************************************************************************)
(* Requests the model sends                                                *)
(***************************************************************************)
S111 == Str(<<"1", "1", "1">>)
S222 == Str(<<"2", "2", "2">>)
S333 == Str(<<"3", "3", "3">>)
Empty == Str(<<>>)

\* req.body of POST /apply: the three contact aliases
ApplyBodies ==
  { [phone |-> Undef, whatsapp |-> S111,  number |-> Undef],
    [phone |-> Empty, whatsapp |-> Undef, number |-> S222],
    [phone |-> S111,  whatsapp |-> S222,  number |-> S333] }

\* req.params.phone of GET /verify/:phone
Phones == {S111, S333}

MalformedId == Str(<<"a", "b", "c">>)
\* a well-formed id, in upper case, that the driver never generates
ForeignId == Str([k \in 1..ObjectIdLen |-> IF k = ObjectIdLen THEN "A" ELSE "0"])

\* req.params.id of GET /applicant/:id
IdParams == {Str(GeneratedId(1)), MalformedId}

\* req.params.passId of GET /getApplicant/:passId
PassIdParams == {Str(generateUniquePassId(0))}

HYD == Str(<<"H">>)
WGL == Str(<<"W">>)
PAID == Str(<<"P", "A", "I", "D">>)
FREE == Str(<<"F", "R", "E", "E">>)
LowerPaid == Str(<<"p", "a", "i", "d">>)
S500 == Str(<<"5", "0", "0">>)

Body(a, s, d, p, m) ==
  [applicantId |-> a, source |-> s, destination |-> d, paymentType |-> p, amount |-> m]

\* req.body of POST /bookTicket
BookBodies ==
  { Body(Str(GeneratedId(1)), HYD, WGL, FREE, S500),
    Body(Str(GeneratedId(1)), HYD, WGL, PAID, S500),
    Body(Str(GeneratedId(1)), HYD, WGL, PAID, Undef),
    Body(ForeignId, HYD, WGL, LowerPaid, S500),
    Body(MalformedId, HYD, WGL, PAID, S500),
    Body(Str(GeneratedId(1)), HYD, Undef, PAID, S500),
    Body(Str(GeneratedId(1)), Empty, WGL, FREE, S500) }

(***************************************************************************)
(* State                                                                   *)
(***************************************************************************)
VARIABLES
  proc,          \* "connecting": client.connect() pending, the collection
                 \* handles `applications`, `tickets` are undefined;
                 \* "ready": both handles assigned; "exited": process.exit(1)
  applications,  \* documents of the applications collection, in insertion order
  tickets,       \* documents of the tickets collection, in insertion order
  nextOid,       \* number of ObjectIds the driver has generated
  reqs,          \* per request: handler, position, locals, responses sent
  last,          \* the response sent last, with what the request carried
  succeeded      \* history: the alias values of the applications answered
                 \* with success

vars == <<proc, applications, tickets, nextOid, reqs, last, succeeded>>

NoLocals == [none |-> TRUE]
NoData == [none |-> TRUE]

Idle == [kind |-> "none", pc |-> "idle", nresp |-> 0, env |-> NoLocals]

Response(kind, status, success, text, data, ctx) ==
  [kind |-> kind, status |-> status, success |-> success, text |-> text,
   data |-> data, ctx |-> ctx]

NoResponse == Response("none", 0, "absent", "", NoData, NoData)

Init ==
  /\ proc = "connecting"
  /\ applications = <<>>
  /\ tickets = <<>>
  /\ nextOid = 0
  /\ reqs = [i \in 1..MaxReqs |-> Idle]
  /\ last = NoResponse
  /\ succeeded = {}

(***************************************************************************)
(* connectDB                                                               *)
(***************************************************************************)
\* client.connect() resolves: the handles are assigned
ConnectResolve ==
  /\ proc = "connecting"
  /\ proc' = "ready"
  /\ UNCHANGED <<applications, tickets, nextOid, reqs, last, succeeded>>

\* client.connect() rejects: process.exit(1)
ConnectReject ==
  /\ proc = "connecting"
  /\ proc' = "exited"
  /\ UNCHANGED <<applications, tickets, nextOid, reqs, last, succeeded>>

(***************************************************************************)
(* Handler plumbing                                                        *)
(***************************************************************************)
\* request i reaches its handler: the server is listening and requests are
\* numbered in the order they arrive
Arrives(i) ==
  /\ proc # "exited"
  /\ reqs[i].pc = "idle"
  /\ \A j \in 1..(i - 1) : reqs[j].pc # "idle"

\* slip: a guard answers without returning and the handler answers again
RespondTwice(i, resp) ==
  /\ reqs' = [reqs EXCEPT ![i] = [kind |-> "none", pc |-> "done",
                                  nresp |-> @.nresp + 2, env |-> NoLocals]]
  /\ last' = resp

\* res.status(..).json(..) ends the handler
Respond(i, resp) ==
  /\ reqs' = [reqs EXCEPT ![i] = [kind |-> "none", pc |-> "done",
                                  nresp |-> @.nresp + 1, env |-> NoLocals]]
  /\ last' = resp

\* the handler reaches an await
Await(i, kind, pc, env) ==
  /\ reqs' = [reqs EXCEPT ![i] = [kind |-> kind, pc |-> pc,
                                  nresp |-> @.nresp, env |-> env]]
  /\ UNCHANGED last

At(i, kind, pc) == reqs[i].kind = kind /\ reqs[i].pc = pc

\* what a response records of its request: the input, whether the handles
\* were assigned when the handler started, whether an awaited call rejected
Ctx(input, connected, rejected) ==
  [input |-> input, connected |-> connected, rejected |-> rejected]

(***************************************************************************)
(* The collections                                                         *)
(***************************************************************************)
\* the position findOne returns, given the positions of the documents that
\* match its filter: any of them (the order among several matches is the
\* store's), 0 for null
FindOne(hits) == IF hits = {} THEN {0} ELSE hits

\* slip: the write replaces the collection's content
InsertOneReplace(coll, doc) == <<doc>>

\* the collection after insertOne(doc) resolves
InsertOne(coll, doc) == Append(coll, doc)

(***************************************************************************)
(* 1. POST /apply                                                          *)
(***************************************************************************)
\* slip: the aliases are tried in the opposite order
phoneNumberNumberFirst(body) == Or(Or(body.number, body.whatsapp), body.phone)

\* req.body.phone || req.body.whatsapp || req.body.number
phoneNumber(body) == Or(Or(body.phone, body.whatsapp), body.number)

\* the document the handler builds
ApplicantDoc(body, passId) ==
  [passId |-> passId,
   phone |-> phoneNumber(body),
   whatsapp |-> Or(body.whatsapp, phoneNumber(body)),
   number |-> Or(body.number, phoneNumber(body))]

WithId(doc, n) == [f \in DOMAIN doc \cup {"_id"} |->
                     IF f = "_id" THEN GeneratedId(n) ELSE doc[f]]

\* the handler up to `await QRCode.toDataURL(passId)`
ApplyStart(i, body, draw) ==
  /\ Arrives(i)
  /\ IF proc # "ready"
       THEN Respond(i, Response("apply", 500, "absent", "DB not connected yet",
                                NoData, Ctx(body, FALSE, FALSE)))
       ELSE Await(i, "apply", "qr",
                  [body |-> body, passId |-> Str(generateUniquePassId(draw))])
  /\ UNCHANGED <<proc, applications, tickets, nextOid, succeeded>>

\* toDataURL resolves: the document is built and insertOne is called, the
\* driver giving the document its _id
ApplyQRResolve(i) ==
  /\ At(i, "apply", "qr")
  /\ nextOid' = nextOid + 1
  /\ Await(i, "apply", "insert",
           [body |-> reqs[i].env.body, passId |-> reqs[i].env.passId,
            doc |-> WithId(ApplicantDoc(reqs[i].env.body, reqs[i].env.passId),
                           nextOid + 1)])
  /\ UNCHANGED <<proc, applications, tickets, succeeded>>

\* toDataURL rejects: the catch block answers
ApplyQRReject(i) ==
  /\ At(i, "apply", "qr")
  /\ Respond(i, Response("apply", 500, "false", "Failed to save application",
                         NoData, Ctx(reqs[i].env.body, TRUE, TRUE)))
  /\ UNCHANGED <<proc, applications, tickets, nextOid, succeeded>>

\* insertOne resolves
ApplyInsertResolve(i) ==
  /\ At(i, "apply", "insert")
  /\ applications' = InsertOne(applications, reqs[i].env.doc)
  /\ Respond(i, Response("apply", 200, "true", "Application stored in MongoDB",
                         [id |-> reqs[i].env.doc._id, passId |-> reqs[i].env.passId],
                         Ctx(reqs[i].env.body, TRUE, FALSE)))
  /\ succeeded' = succeeded \cup
       {v \in {reqs[i].env.body.phone, reqs[i].env.body.whatsapp,
               reqs[i].env.body.number} : Truthy(v)}
  /\ UNCHANGED <<proc, tickets, nextOid>>

\* insertOne rejects
ApplyInsertReject(i) ==
  /\ At(i, "apply", "insert")
  /\ Respond(i, Response("apply", 500, "false", "Failed to save application",
                         NoData, Ctx(reqs[i].env.body, TRUE, TRUE)))
  /\ UNCHANGED <<proc, applications, tickets, nextOid, succeeded>>

(***************************************************************************)
(* 2. GET /verify/:phone                                                   *)
(***************************************************************************)
VerifyStart(i, phone) ==
  /\ Arrives(i)
  /\ IF proc # "ready"
       THEN Respond(i, Response("verify", 500, "false", "DB not connected",
                                NoData, Ctx([phone |-> phone, issued |-> FALSE],
                                            FALSE, FALSE)))
       ELSE Await(i, "verify", "find",
                  [phone |-> phone, issued |-> phone \in succeeded])
  /\ UNCHANGED <<proc, applications, tickets, nextOid, succeeded>>

\* slip: the filter looks at the phone field only
VerifyFilterPhoneOnly(phone, doc) == doc.phone = phone

\* $or: [{ phone }, { whatsapp: phone }, { number: phone }]
VerifyFilter(phone, doc) ==
  doc.phone = phone \/ doc.whatsapp = phone \/ doc.number = phone

VerifyFindResolve(i) ==
  /\ At(i, "verify", "find")
  /\ \E k \in FindOne({n \in 1..Len(applications) :
                          VerifyFilter(reqs[i].env.phone, applications[n])}) :
       Respond(i, IF k # 0
                    THEN Response("verify", 200, "true", "",
                                  [id |-> applications[k]._id],
                                  Ctx(reqs[i].env, TRUE, FALSE))
                    ELSE Response("verify", 200, "false", "", NoData,
                                  Ctx(reqs[i].env, TRUE, FALSE)))
  /\ UNCHANGED <<proc, applications, tickets, nextOid, succeeded>>

VerifyFindReject(i) ==
  /\ At(i, "verify", "find")
  /\ Respond(i, Response("verify", 500, "false", "Server error", NoData,
                         Ctx(reqs[i].env, TRUE, TRUE)))
  /\ UNCHANGED <<proc, applications, tickets, nextOid, succeeded>>

(***************************************************************************)
(* 3. GET /applicant/:id                                                   *)
(***************************************************************************)
GetByIdStart(i, id) ==
  /\ Arrives(i)
  /\ IF proc # "ready"
       THEN Respond(i, Response("getById", 500, "false", "DB not connected",
                                NoData, Ctx(id, FALSE, FALSE)))
       ELSE IF ~ObjectIdValid(id)
         \* new ObjectId(req.params.id) throws into the catch block
         THEN Respond(i, Response("getById", 500, "false", "Server error",
                                  NoData, Ctx(id, TRUE, FALSE)))
         ELSE Await(i, "getById", "find", [id |-> id, oid |-> ObjectId(id)])
  /\ UNCHANGED <<proc, applications, tickets, nextOid, succeeded>>

GetByIdFindResolve(i) ==
  /\ At(i, "getById", "find")
  /\ \E k \in FindOne({n \in 1..Len(applications) :
                          applications[n]._id = reqs[i].env.oid}) :
       Respond(i, IF k # 0
                    THEN Response("getById", 200, "true", "", applications[k],
                                  Ctx(reqs[i].env.id, TRUE, FALSE))
                    ELSE Response("getById", 200, "false", "", NoData,
                                  Ctx(reqs[i].env.id, TRUE, FALSE)))
  /\ UNCHANGED <<proc, applications, tickets, nextOid, succeeded>>

GetByIdFindReject(i) ==
  /\ At(i, "getById", "find")
  /\ Respond(i, Response("getById", 500, "false", "Server error", NoData,
                         Ctx(reqs[i].env.id, TRUE, TRUE)))
  /\ UNCHANGED <<proc, applications, tickets, nextOid, succeeded>>

(***************************************************************************)
(* 4. GET /getApplicant/:passId                                            *)
(***************************************************************************)
\* no check of the handle: applications.findOne on undefined throws a
\* TypeError into the catch block, which answers with err.message
GetByPassIdStart(i, passId) ==
  /\ Arrives(i)
  /\ IF proc # "ready"
       THEN Respond(i, Response("getByPassId", 500, "false", "TypeError",
                                NoData, Ctx(passId, FALSE, FALSE)))
       ELSE Await(i, "getByPassId", "find", [passId |-> passId])
  /\ UNCHANGED <<proc, applications, tickets, nextOid, succeeded>>

\* slip: the not-found branch keeps the default status
GetByPassIdStatusAlways200(found) == 200

\* res.status(applicant ? 200 : 404)
GetByPassIdStatus(found) == IF found THEN 200 ELSE 404

GetByPassIdFindResolve(i) ==
  /\ At(i, "getByPassId", "find")
  /\ \E k \in FindOne({n \in 1..Len(applications) :
                          applications[n].passId = reqs[i].env.passId}) :
       Respond(i, IF k # 0
                    \* the raw document: the body has no success field
                    THEN Response("getByPassId", GetByPassIdStatus(TRUE), "absent", "",
                                  applications[k],
                                  Ctx(reqs[i].env.passId, TRUE, FALSE))
                    ELSE Response("getByPassId", GetByPassIdStatus(FALSE), "false",
                                  "Not found", NoData,
                                  Ctx(reqs[i].env.passId, TRUE, FALSE)))
  /\ UNCHANGED <<proc, applications, tickets, nextOid, succeeded>>

GetByPassIdFindReject(i) ==
  /\ At(i, "getByPassId", "find")
  /\ Respond(i, Response("getByPassId", 500, "false", "store error", NoData,
                         Ctx(reqs[i].env.passId, TRUE, TRUE)))
  /\ UNCHANGED <<proc, applications, tickets, nextOid, succeeded>>

(***************************************************************************)
(* 5. POST /bookTicket                                                     *)
(***************************************************************************)
\* slip: destination is not among the checked fields
MissingFieldsNoDestination(body) ==
  \/ ~Truthy(body.applicantId)
  \/ ~Truthy(body.source)
  \/ ~Truthy(body.paymentType)

\* !applicantId || !source || !destination || !paymentType
MissingFields(body) ==
  \/ ~Truthy(body.applicantId)
  \/ ~Truthy(body.source)
  \/ ~Truthy(body.destination)
  \/ ~Truthy(body.paymentType)

\* slip: the amount is stored whatever the payment type
TicketAmountUnconditional(body) == Number(body.amount)

\* paymentType === "PAID" ? Number(amount) : 0
TicketAmount(body) ==
  IF body.paymentType = PAID THEN Number(body.amount) ELSE Num(0)

\* ticketDoc
TicketDoc(body) ==
  [applicantId |-> ObjectId(body.applicantId),
   source |-> body.source,
   destination |-> body.destination,
   paymentType |-> body.paymentType,
   amount |-> TicketAmount(body)]

BookTicketStart(i, body) ==
  /\ Arrives(i)
  /\ IF MissingFields(body)
       THEN /\ Respond(i, Response("bookTicket", 200, "false", "Missing fields",
                                   NoData, Ctx(body, proc = "ready", FALSE)))
            /\ UNCHANGED nextOid
       ELSE IF ~ObjectIdValid(body.applicantId)
         \* new ObjectId(applicantId) throws into the catch block
         THEN /\ Respond(i, Response("bookTicket", 500, "false", "BSONError",
                                     NoData, Ctx(body, proc = "ready", FALSE)))
              /\ UNCHANGED nextOid
         ELSE IF proc # "ready"
           \* tickets.insertOne on undefined throws a TypeError
           THEN /\ Respond(i, Response("bookTicket", 500, "false", "TypeError",
                                       NoData, Ctx(body, FALSE, FALSE)))
                /\ UNCHANGED nextOid
           ELSE /\ nextOid' = nextOid + 1
                /\ Await(i, "bookTicket", "insert",
                         [body |-> body,
                          doc |-> WithId(TicketDoc(body), nextOid + 1)])
  /\ UNCHANGED <<proc, applications, tickets, succeeded>>

BookTicketInsertResolve(i) ==
  /\ At(i, "bookTicket", "insert")
  /\ tickets' = InsertOne(tickets, reqs[i].env.doc)
  /\ Respond(i, Response("bookTicket", 200, "true", "", reqs[i].env.doc,
                         Ctx(reqs[i].env.body, TRUE, FALSE)))
  /\ UNCHANGED <<proc, applications, nextOid, succeeded>>

BookTicketInsertReject(i) ==
  /\ At(i, "bookTicket", "insert")
  /\ Respond(i, Response("bookTicket", 500, "false", "store error", NoData,
                         Ctx(reqs[i].env.body, TRUE, TRUE)))
  /\ UNCHANGED <<proc, applications, tickets, nextOid, succeeded>>

(***************************************************************************)
(* Specification                                                           *)
(***************************************************************************)
Requests == 1..MaxReqs

\* an awaited promise of request i settles
Settle(i) ==
  \/ ApplyQRResolve(i)
  \/ ApplyQRReject(i)
  \/ ApplyInsertResolve(i)
  \/ ApplyInsertReject(i)
  \/ VerifyFindResolve(i)
  \/ VerifyFindReject(i)
  \/ GetByIdFindResolve(i)
  \/ GetByIdFindReject(i)
  \/ GetByPassIdFindResolve(i)
  \/ GetByPassIdFindReject(i)
  \/ BookTicketInsertResolve(i)
  \/ BookTicketInsertReject(i)

Next ==
  \/ ConnectResolve
  \/ ConnectReject
  \/ \E i \in Requests, body \in ApplyBodies, draw \in RandomDraws :
       ApplyStart(i, body, draw)
  \/ \E i \in Requests, phone \in Phones : VerifyStart(i, phone)
  \/ \E i \in Requests, id \in IdParams : GetByIdStart(i, id)
  \/ \E i \in Requests, passId \in PassIdParams : GetByPassIdStart(i, passId)
  \/ \E i \in Requests, body \in BookBodies : BookTicketStart(i, body)
  \/ \E i \in Requests : ApplyQRResolve(i)
  \/ \E i \in Requests : ApplyQRReject(i)
  \/ \E i \in Requests : ApplyInsertResolve(i)
  \/ \E i \in Requests : ApplyInsertReject(i)
  \/ \E i \in Requests : VerifyFindResolve(i)
  \/ \E i \in Requests : VerifyFindReject(i)
  \/ \E i \in Requests : GetByIdFindResolve(i)
  \/ \E i \in Requests : GetByIdFindReject(i)
  \/ \E i \in Requests : GetByPassIdFindResolve(i)
  \/ \E i \in Requests : GetByPassIdFindReject(i)
  \/ \E i \in Requests : BookTicketInsertResolve(i)
  \/ \E i \in Requests : BookTicketInsertReject(i)

Spec == Init /\ [][Next]_vars

\* every pending store or QR call eventually resolves or rejects
FairSpec == Spec /\ \A i \in Requests : WF_vars(Settle(i))

(***************************************************************************)
(* Properties                                                              *)
(***************************************************************************)
Docs(coll) == {coll[k] : k \in 1..Len(coll)}

\* a response is sent in this step
Answers == \E i \in Requests : reqs[i].pc # "done" /\ reqs'[i].pc = "done"

\* C1: passId is unique across the Applicant Records: no two documents of
\* the applications collection hold the same passId.
PassIdUnique ==
  \A a, b \in 1..Len(applications) :
    a # b => applications[a].passId # applications[b].passId

\* the not-found response of GET /getApplicant/:passId
IsNotFound(resp) ==
  resp.status = 404 /\ resp.success = "false" /\ resp.text = "Not found"

\* a getByPassId response to an identifier no stored document holds
AnswersUnknownPassId ==
  /\ last.kind = "getByPassId"
  /\ \A doc \in Docs(applications) : doc.passId # last.ctx.input

\* C2 as stated: getByPassId with an identifier that no stored record holds
\* is answered with 404 and never with 500, whenever it is handled.
UnknownPassIdAlways404 ==
  AnswersUnknownPassId => IsNotFound(last) /\ last.status # 500

\* C2 amended: getByPassId with an identifier that no stored record holds is
\* answered with 404 {success:false, msg} when the store is connected and
\* findOne resolves; before the connection or when findOne rejects the
\* answer is HTTP 500.
UnknownPassId404WhenStoreAnswers ==
  AnswersUnknownPassId =>
    IF last.ctx.connected /\ ~last.ctx.rejected
      THEN IsNotFound(last)
      ELSE last.status = 500 /\ last.success = "false"

UnknownPassIdAnswered404 ==
  /\ AnswersUnknownPassId
  /\ applications # <<>>
  /\ IsNotFound(last)

\* a verify response that names a stored document matching the phone
VerifyFound(resp) ==
  /\ resp.status = 200
  /\ resp.success = "true"
  /\ \E doc \in Docs(applications) :
       /\ doc._id = resp.data.id
       /\ \/ doc.phone = resp.ctx.input.phone
          \/ doc.whatsapp = resp.ctx.input.phone
          \/ doc.number = resp.ctx.input.phone

Canonical(body) ==
  IF body.phone \notin {Undef, Empty} THEN body.phone
  ELSE IF body.whatsapp \notin {Undef, Empty} THEN body.whatsapp
  ELSE body.number

Supplied(body) ==
  {f \in {"phone", "whatsapp", "number"} : body[f] \notin {Undef, Empty}}

\* the document a successful apply response names
StoredBy(resp) == CHOOSE doc \in Docs(applications) : doc._id = resp.data.id

\* C4: the record stored by submitApplication has phone = canonical,
\* whatsapp = the supplied whatsapp else canonical, number = the supplied
\* number else canonical; with exactly one alias v supplied all three are v.
ContactFallback ==
  (last.kind = "apply" /\ last.success = "true") =>
    /\ \E doc \in Docs(applications) : doc._id = last.data.id
    /\ LET body == last.ctx.input
           doc == StoredBy(last)
       IN  /\ doc.phone = Canonical(body)
           /\ doc.whatsapp = IF body.whatsapp \notin {Undef, Empty}
                               THEN body.whatsapp ELSE Canonical(body)
           /\ doc.number = IF body.number \notin {Undef, Empty}
                             THEN body.number ELSE Canonical(body)
           /\ \A f \in Supplied(body) :
                Supplied(body) = {f} =>
                  doc.phone = body[f] /\ doc.whatsapp = body[f] /\ doc.number = body[f]

OnlyWhatsappStored ==
  /\ last.kind = "apply"
  /\ last.success = "true"
  /\ Supplied(last.ctx.input) = {"whatsapp"}
  /\ StoredBy(last).phone = S111
  /\ StoredBy(last).number = S111

\* a required field of a booking is missing or empty
RequiredFieldMissing(body) ==
  \E f \in {"applicantId", "source", "destination", "paymentType"} :
    body[f] = Undef \/ body[f] = Empty

\* C5: a bookTicket request with applicantId, source, destination or
\* paymentType missing or empty is answered with the missing-fields error
\* and no store write is attempted: both collections stay as they were.
MissingFieldRejection ==
  [][ /\ \A i \in Requests :
           reqs'[i].kind = "bookTicket" => ~RequiredFieldMissing(reqs'[i].env.body)
      /\ (Answers /\ last'.kind = "bookTicket" /\ RequiredFieldMissing(last'.ctx.input)) =>
           /\ last'.success = "false"
           /\ last'.text = "Missing fields"
           /\ applications' = applications
           /\ tickets' = tickets
           /\ nextOid' = nextOid ]_vars

MissingDestinationRejected ==
  /\ last.kind = "bookTicket"
  /\ last.ctx.input.destination = Undef
  /\ last.ctx.input.applicantId # Undef
  /\ last.ctx.connected
  /\ last.text = "Missing fields"

\* C6: every stored ticket has amount 0 unless its paymentType is exactly
\* "PAID", and then amount is the numeric value of the supplied amount:
\* FREE with "500" stores 0, PAID with "500" stores 500.
TicketAmountPolicy ==
  /\ \A t \in Docs(tickets) : t.paymentType # PAID => t.amount = Num(0)
  /\ (last.kind = "bookTicket" /\ last.success = "true") =>
       /\ last.data \in Docs(tickets)
       /\ last.data.paymentType = last.ctx.input.paymentType
       /\ last.data.amount =
            IF last.ctx.input.paymentType # PAID THEN Num(0)
            ELSE IF last.ctx.input.amount = S500 THEN Num(500)
            ELSE Number(last.ctx.input.amount)

FreeAndPaidStored ==
  /\ \E t \in Docs(tickets) : t.paymentType = PAID /\ t.amount = Num(500)
  /\ last.kind = "bookTicket"
  /\ last.success = "true"
  /\ last.ctx.input.paymentType = FREE
  /\ last.ctx.input.amount = S500
  /\ last.data.amount = Num(0)

\* C7: the applicantId of every ticket in the tickets collection is the id
\* of some document of the applications collection.
TicketsReferenceApplicants ==
  \A t \in Docs(tickets) : \E a \in Docs(applications) : a._id = t.applicantId

\* C8: getById with an id that does not parse is answered with a client
\* error, an outcome distinct from not-found (HTTP 200 {success:false}) and
\* from the generic server error (HTTP 500 "Server error").
MalformedIdIsClientError ==
  (last.kind = "getById" /\ last.ctx.connected /\ ~ObjectIdValid(last.ctx.input)) =>
    /\ ~(last.status = 200 /\ last.success = "false")
    /\ ~(last.status = 500 /\ last.text = "Server error")

Pending(i) == reqs[i].pc \notin {"idle", "done"}

\* C9: every request is eventually answered, exactly once: no request stays
\* pending for ever, a pending handler moves only to its next await or to
\* its response, and an answered request has exactly one response; a
\* request that hits a failure (store not connected, a store or QR call
\* rejecting) is answered with an error body, never success:true; and once
\* the store is connected the process keeps running.
EveryRequestAnsweredOnce ==
  /\ \A i \in Requests : []<>(~Pending(i))
  /\ [][\A i \in Requests :
          (reqs[i].pc # "idle" /\ reqs'[i].pc # reqs[i].pc) =>
            \/ reqs'[i].pc = "done"
            \/ reqs[i].pc = "qr" /\ reqs'[i].pc = "insert"]_vars
  /\ [](\A i \in Requests : reqs[i].nresp = IF reqs[i].pc = "done" THEN 1 ELSE 0)
  /\ []((last.kind # "none" /\ last.ctx.rejected) =>
          (last.status = 500 /\ last.success # "true"))
  /\ []((last.kind # "none" /\ ~last.ctx.connected) => last.success # "true")
  /\ [][proc = "ready" => proc' = "ready"]_vars

RejectedInsertAnswered ==
  /\ last.kind = "apply"
  /\ last.ctx.rejected
  /\ last.status = 500
  /\ \E i \in Requests : Pending(i)
  /\ \E i \in Requests : reqs[i].pc = "done" /\ reqs[i].nresp = 1

IsPrefix(s, t) == Len(s) <= Len(t) /\ SubSeq(t, 1, Len(s)) = s

\* C10: the store is append-only: a persisted record is never modified or
\* removed, a successful submitApplication adds exactly one Applicant
\* Record, a successful bookTicket exactly one Ticket Record, and every
\* other step (lookups, error responses) leaves both collections unchanged.
AppendOnly ==
  [][ LET ok(kind) == Answers /\ last'.kind = kind /\ last'.success = "true" IN
      /\ IsPrefix(applications, applications')
      /\ IsPrefix(tickets, tickets')
      /\ Len(applications') = Len(applications) + (IF ok("apply") THEN 1 ELSE 0)
      /\ Len(tickets') = Len(tickets) + (IF ok("bookTicket") THEN 1 ELSE 0) ]_vars

BothCollectionsGrew ==
  /\ Len(applications) = 1
  /\ Len(tickets) = 1
  /\ last.success = "true"

====
